---- MODULE Spec2Model ----
(***************************************************************************)
(* A model of clatter_rs/src/lib.rs: the streaming median filter, the      *)
(* convolver, the interpolator and the scrape force generator.             *)
(*                                                                         *)
(* Numbers.  The kernel computes on f64.  The model draws every float from *)
(* a small set of integers (exactly representable, far from overflow), so  *)
(* +, - and * are exact; samples of the median filter are even, so the     *)
(* halving of the even-count median is exact as well.  The scrape          *)
(* generator counts its floats in units of 1/ONE, and its curves in        *)
(* multiples of CurveUnit, so that its quotients are exact too.            *)
(*                                                                         *)
(* Vectors.  A safer_ffi::Vec<f64> is a function from 0..len-1, so that    *)
(* every index of the model is the index of the source.                    *)
(*                                                                         *)
(* Panics.  A Rust panic (a failed unwrap, an index or a slice out of      *)
(* range, usize arithmetic overflowing in a checked build) ends the run:   *)
(* the variable panicked becomes TRUE and no operation is enabled after.   *)
(* SpecMedianResumed alone lets the owner of the filter catch the unwind.  *)
(***************************************************************************)
EXTENDS Integers, Sequences, FiniteSets, TLC

\* ------------------------------------------------------------------ bounds

\* Samples pushed into the median filter are 2*k for k in -MaxSample..MaxSample.
MaxSample == 2
\* At most MaxCalls process calls are made on one filter.
MaxCalls == 6

Samples == {2 * k : k \in (0 - MaxSample)..MaxSample}

\* ----------------------------------------------------------------- vectors

VLen(d) == Cardinality(DOMAIN d)

Zeros(n) == [i \in 0..(n - 1) |-> 0]

\* slice::swap
Swap(d, i, j) == [d EXCEPT ![i] = d[j], ![j] = d[i]]

SetMin(S) == CHOOSE m \in S : \A x \in S : m <= x

SetMax(S) == CHOOSE m \in S : \A x \in S : x <= m

VRange(d) == {d[i] : i \in DOMAIN d}

\* ------------------------------------------------------------ median filter

\* The outcome of a call that returns a float and may have permuted data.
Returned(v, d) == [kind |-> "ok", val |-> v, data |-> d]

\* The outcome of a call that panicked, data as the panic left it.
Panicked(d) == [kind |-> "panic", val |-> 0, data |-> d]

\* The two `for _ in 0..100` bounds of select_in_place.
SELECT_ITERATIONS == 100

\* The inner loop of select_in_place (lines 89-96), n iterations left.
\* begin becomes the position, counted from the old begin, of the first
\* element of data[begin..] below the pivot; end the position, counted
\* backwards from end-1, of the first element of data[0..end] above it.
\* Either unwrap panics when there is no such element.
RECURSIVE partition_loop(_, _, _, _, _)
partition_loop(data, begin, end, pivot, n) ==
  IF n = 0
  THEN [kind |-> "ok", data |-> data, begin |-> begin, end |-> end]
  ELSE LET below == {k \in begin..(VLen(data) - 1) : data[k] < pivot}
           above == {k \in 0..(end - 1) : data[k] > pivot}
       IN  IF below = {} \/ above = {}
           THEN [kind |-> "panic", data |-> data, begin |-> begin, end |-> end]
           ELSE LET b == SetMin(below) - begin
                    e == (end - 1) - SetMax(above)
                IN  IF e < b
                    THEN [kind |-> "ok", data |-> data, begin |-> b, end |-> e]
                    ELSE partition_loop(Swap(data, b, e), b, e, pivot, n - 1)

\* Lines 77-83: the middle element goes to low + 1, then two compare-and-
\* swaps order data[low] against data[high] and against data[low + 1].
order_low_high(data, low, high) ==
  IF data[low] > data[high] THEN Swap(data, low, high) ELSE data

order_low_low1(data, low) ==
  IF data[low] > data[low + 1] THEN Swap(data, low, low + 1) ELSE data

median_of_three(data, low, high) ==
  order_low_low1(
    order_low_high(Swap(data, (low + high) \div 2, low + 1), low, high), low)

\* Lines 98-99: data[low1] = data[end]; data[end] = pivot.
place_pivot(data, low1, end, pivot) ==
  [[data EXCEPT ![low1] = data[end]] EXCEPT ![end] = pivot]

\* The outer loop of select_in_place (lines 69-107), n iterations left;
\* select_partitioned is an iteration from line 84 on, on the data the
\* median of three left, and select_narrowed lines 98-105, p being what
\* the inner loop left.
RECURSIVE select_loop(_, _, _, _, _)
RECURSIVE select_narrowed(_, _, _, _, _, _, _)
RECURSIVE select_partitioned(_, _, _, _, _)

select_narrowed(p, pivot, rank, low, high, low1, n) ==
  IF p.kind = "panic"
  THEN Panicked(p.data)
  ELSE select_loop(place_pivot(p.data, low1, p.end, pivot), rank,
                   IF p.end <= rank THEN p.begin ELSE low,
                   IF p.end >= rank THEN p.end - 1 ELSE high,
                   n - 1)

select_partitioned(data, rank, low, high, n) ==
  select_narrowed(
    partition_loop(data, low + 1, high, data[low + 1], SELECT_ITERATIONS),
    data[low + 1], rank, low, high, low + 1, n)

select_loop(data, rank, low, high, n) ==
  IF n = 0
  THEN Returned(0, data)
  ELSE IF high <= low + 1
  THEN IF high = low + 1 /\ data[high] < data[low]
       THEN Returned(Swap(data, low, high)[rank], Swap(data, low, high))
       ELSE Returned(data[rank], data)
  ELSE select_partitioned(median_of_three(data, low, high), rank, low, high, n)

\* MedianFilter::select_in_place (lines 60-109); data is not empty.
select_in_place(data, rank) ==
  IF rank <= 0
  THEN Returned(SetMin(VRange(data)), data)
  ELSE IF rank >= VLen(data) - 1
  THEN Returned(SetMax(VRange(data)), data)
  ELSE select_loop(data, rank, 0, VLen(data) - 1, SELECT_ITERATIONS)

\* The even-count median of line 56: the mean of the two selections, b made
\* on the data a left; a panic of either is the panic of the call.
mean_of(a, b) ==
  IF b.kind = "panic" THEN b ELSE Returned((a.val + b.val) \div 2, b.data)

then_select(a, k) ==
  IF a.kind = "panic" THEN a ELSE mean_of(a, select_in_place(a.data, k))

\* MedianFilter::median_in_place (lines 51-58).
median_in_place(data) ==
  IF VLen(data) % 2 # 0
  THEN select_in_place(data, VLen(data) \div 2)
  ELSE then_select(select_in_place(data, VLen(data) \div 2 - 1),
                   VLen(data) \div 2)

\* A filter as its owner constructs it: a 5-slot ring buffer of zeros, the
\* four scratch buffers of 1..4 slots, offset 0, not full (lines 18-26).
FreshFilter ==
  [buffer |-> Zeros(5),
   offset_buffer_1 |-> Zeros(1),
   offset_buffer_2 |-> Zeros(2),
   offset_buffer_3 |-> Zeros(3),
   offset_buffer_4 |-> Zeros(4),
   offset |-> 0,
   full |-> FALSE]

\* The scratch buffer `match length` picks (lines 38-44).
OffsetBuffer(mf, length) ==
  CASE length = 1 -> mf.offset_buffer_1
    [] length = 2 -> mf.offset_buffer_2
    [] length = 3 -> mf.offset_buffer_3
    [] length = 4 -> mf.offset_buffer_4

WithOffsetBuffer(mf, length, d) ==
  CASE length = 1 -> [mf EXCEPT !.offset_buffer_1 = d]
    [] length = 2 -> [mf EXCEPT !.offset_buffer_2 = d]
    [] length = 3 -> [mf EXCEPT !.offset_buffer_3 = d]
    [] length = 4 -> [mf EXCEPT !.offset_buffer_4 = d]

\* Line 46: offset_buffer[0..length].copy_from_slice(&self.buffer[0..length]).
copy_from_slice(offset_buffer, buffer, length) ==
  [i \in DOMAIN offset_buffer |->
     IF i < length THEN buffer[i] ELSE offset_buffer[i]]

\* Line 34: the median is selected in the ring buffer itself.
process_full(mf, r) ==
  [mf |-> [mf EXCEPT !.buffer = r.data], kind |-> r.kind, val |-> r.val]

\* Lines 36-47: the median is selected in the scratch buffer of the length.
process_filling(mf, length, r) ==
  [mf |-> WithOffsetBuffer(mf, length, r.data), kind |-> r.kind, val |-> r.val]

\* Lines 33-48, on the filter lines 30-32 left.
process_median(mf) ==
  IF mf.full
  THEN process_full(mf, median_in_place(mf.buffer))
  ELSE process_filling(mf, 5 - mf.offset,
         median_in_place(copy_from_slice(OffsetBuffer(mf, 5 - mf.offset),
                                         mf.buffer, 5 - mf.offset)))

\* Lines 30-32 with `self.full = self.offset == 0` for line 32.
process_store_forgetful(mf, offset, sample) ==
  [mf EXCEPT !.offset = offset,
             !.buffer = [mf.buffer EXCEPT ![offset] = sample],
             !.full = (offset = 0)]

\* Lines 30-32: the write offset steps down, the sample is stored, full is
\* set once the offset is 0.
process_store(mf, offset, sample) ==
  [mf EXCEPT !.offset = offset,
             !.buffer = [mf.buffer EXCEPT ![offset] = sample],
             !.full = mf.full \/ offset = 0]

\* MedianFilter::process (lines 29-49): the filter after the call and the
\* call's outcome.
process(mf, sample) ==
  process_median(
    process_store(mf, IF mf.offset = 0 THEN 4 ELSE mf.offset - 1, sample))

\* ---------------------------------------------------------------- convolver

\* One term of the sum of line 143: input[i - j] * *k, k the j-th element
\* of the kernel slice that starts at a.
conv_term_plus(input, kernel, i, a, j) == input[i - j] + kernel[a + j]

conv_term(input, kernel, i, a, j) == input[i - j] * kernel[a + j]

\* .sum() over the terms j..last of the slice, first to last.
RECURSIVE conv_sum(_, _, _, _, _, _)
conv_sum(input, kernel, i, a, j, last) ==
  IF j > last THEN 0
  ELSE conv_term(input, kernel, i, a, j) + conv_sum(input, kernel, i, a, j + 1, last)

\* The value lines 132-144 compute for output index i, or the panic:
\*  - `i - input_length - 1` underflows at i = input_length, and
\*    `kernel_length - 1` at kernel_length = 0: a checked build panics at the
\*    subtraction, an unchecked one on the slice the wrapped bound asks for;
\*  - kernel[a..=b] panics unless a <= b + 1 and b < kernel_length;
\*  - input[i - j] panics unless 0 <= i - j < input_length.
conv_sample(input, kernel, i) ==
  LET input_length == VLen(input)
      kernel_length == VLen(kernel)
      a == IF i < input_length THEN 0 ELSE i - input_length - 1
      b == IF i < kernel_length THEN 0 ELSE kernel_length - 1
  IN  IF \/ a < 0
         \/ b < 0
         \/ a > b + 1
         \/ b >= kernel_length
         \/ \E j \in 0..(b - a) : i - j < 0 \/ i - j >= input_length
      THEN [kind |-> "panic", val |-> 0]
      ELSE [kind |-> "ok", val |-> conv_sum(input, kernel, i, a, 0, b - a)]

\* The loop of line 131 from index i down to 0: the pairs of the zip,
\* reversed.  A panic leaves the entries above i written.
RECURSIVE conv_loop(_, _, _, _)
conv_loop(input, kernel, output, i) ==
  IF i < 0 THEN [kind |-> "ok", output |-> output]
  ELSE LET s == conv_sample(input, kernel, i) IN
       IF s.kind = "panic"
       THEN [kind |-> "panic", output |-> output]
       ELSE conv_loop(input, kernel, [output EXCEPT ![i] = s.val], i - 1)

\* The number of pairs (0..length - 1).zip(output.iter_mut()) yields.  At
\* length = 0 the subtraction underflows: a build with overflow checks
\* panics (-1 here), one without wraps to usize::MAX and the zip stops at
\* the end of output.
conv_count(length, output, checked) ==
  IF length = 0
  THEN IF checked THEN 0 - 1 ELSE VLen(output)
  ELSE IF length - 1 < VLen(output) THEN length - 1 ELSE VLen(output)

\* convolve (lines 128-146).
convolve(input, kernel, length, output, checked) ==
  LET n == conv_count(length, output, checked) IN
  IF n < 0
  THEN [kind |-> "panic", output |-> output]
  ELSE conv_loop(input, kernel, output, n - 1)

\* ------------------------------------------- bounds of the scrape generator

\* The length of the sampling grid, 4410 in the source (line 7), scaled.
\* It stays above 3: a tick over a force buffer as long as the grid makes
\* more than two process calls, as it does in the source.
SCRAPE_LINEAR_SPACE_LEN == 4

\* num_points is 2..MaxPoints, the curves hold num_points..MaxCurve entries.
MaxPoints == 3
MaxCurve == 4
\* At most MaxTicks get_scrape calls are made between two resets.
MaxTicks == 3

RECURSIVE Factorial(_)
Factorial(n) == IF n <= 1 THEN 1 ELSE n * Factorial(n - 1)

\* Numbers of the scrape generator are counted in units of 1/ONE: the float
\* 1.0 is the integer ONE, chosen so that every point of linear_space and of
\* the sampling grid is a whole number of units.  Plain factors (the
\* impulse response, the amplitudes, horizontal and vertical) stay integers.
ONE == Factorial(MaxPoints - 1) * (SCRAPE_LINEAR_SPACE_LEN - 1)

\* ------------------------------------------------------------- interpolator

\* a / b where the quotient is exact; the inputs of the model keep every
\* quotient exact, and an inexact one has no value.
ExactDiv(a, b) ==
  IF b < 0
  THEN CHOOSE q \in {(0 - a) \div (0 - b)} : q * b = a
  ELSE CHOOSE q \in {a \div b} : q * b = a

\* The outcome of an interpolate1d call: the float returned, the cached
\* start index it leaves, and the indices of y it read (the failing one
\* included when the call panics).
Interpolated(kind, val, start_x, reads) ==
  [kind |-> kind, val |-> val, start_x |-> start_x, reads |-> reads]

\* Line 289: y0 + (y[i + y_index_offset] - y0) * (v - x0) / (*ix / x0).
\* At x0 = 0 the divisor *ix / x0 is infinite and the quotient 0.
interp_value(v, x0, ix, y0, y1) ==
  IF x0 = 0 THEN y0
  ELSE y0 + ExactDiv((y1 - y0) * (v - x0) * x0, ONE * ix)

\* Lines 282-289, for the position i of the first element of
\* x[start_x..end_x] above v, counted from start_x.
interp_found(v, x, y, lower, y_index_offset, start_x, i) ==
  IF i = 0 THEN Interpolated("ok", lower, 1, {})
  ELSE IF (i - 1) + y_index_offset \notin DOMAIN y
  THEN Interpolated("panic", 0, i + 1, {(i - 1) + y_index_offset})
  ELSE IF i + y_index_offset \notin DOMAIN y
  THEN Interpolated("panic", 0, i + 1,
                    {(i - 1) + y_index_offset, i + y_index_offset})
  ELSE Interpolated("ok",
                    interp_value(v, x[i - 1], x[start_x + i],
                                 y[(i - 1) + y_index_offset],
                                 y[i + y_index_offset]),
                    i + 1,
                    {(i - 1) + y_index_offset, i + y_index_offset})

\* Lines 280-293 with `*start_x += 1` for line 292.
interp_scan_advance(v, x, y, lower, upper, y_index_offset, start_x, hits) ==
  IF hits = {} THEN Interpolated("ok", upper, start_x + 1, {})
  ELSE interp_found(v, x, y, lower, y_index_offset, start_x, SetMin(hits))

\* Lines 280-293 on the set of positions whose element is above v.
interp_scan(v, x, y, lower, upper, y_index_offset, start_x, hits) ==
  IF hits = {} THEN Interpolated("ok", upper, 0, {})
  ELSE interp_found(v, x, y, lower, y_index_offset, start_x, SetMin(hits))

\* interpolate1d (lines 270-294).  The slice x[*start_x..end_x] panics
\* unless start_x <= end_x <= len(x).
interpolate1d(v, x, y, lower, upper, y_index_offset, start_x, end_x) ==
  IF start_x > end_x \/ end_x > VLen(x)
  THEN Interpolated("panic", 0, start_x, {})
  ELSE interp_scan(v, x, y, lower, upper, y_index_offset, start_x,
                   {i \in 0..(end_x - start_x - 1) : v < x[start_x + i]})

\* --------------------------------------------------- scrape force generator

\* Lines 8-13: SCRAPE_LINEAR_SPACE[n] = n * SCRAPE_LINEAR_SPACE_STEP.
SCRAPE_LINEAR_SPACE_STEP == ExactDiv(ONE, SCRAPE_LINEAR_SPACE_LEN - 1)

SCRAPE_LINEAR_SPACE(n) == n * SCRAPE_LINEAR_SPACE_STEP

\* f64::tanh, as the clamp to [-1, 1]: odd, non-decreasing, bounded by 1,
\* the identity near 0.
tanh(v) == IF v > ONE THEN ONE ELSE IF v < 0 - ONE THEN 0 - ONE ELSE v

\* Lines 206-210: the first num_points entries of linear_space become
\* i * step, step = 1.0 / (num_points - 1).
define_linear_space(space, points) ==
  [i \in DOMAIN space |->
     IF i < points THEN i * ExactDiv(ONE, points - 1) ELSE space[i]]

\* Lines 213-217: the index the tick works from.
reset_index_never(index, points, len) == index

reset_index(index, points, len) ==
  IF index + points > len THEN 0 ELSE index

\* Lines 224-226.
vertical_of(p) ==
  ExactDiv(p.scrape_speed * p.scrape_speed, 2 * p.max_speed * p.max_speed)

horizontal_of(p) == ExactDiv(p.scrape_speed, 20 * p.max_speed)

curve_mass_of(p) == 10 * p.primary_mass

\* Line 263.
amp_of(p) == p.roughness_ratio * p.simulation_amp * p.scrape_amp

\* What a tick leaves behind: how it ended and where (site), the caller's
\* cursor and buffers, the filter, the curve indices it read, and the index
\* it worked from.
Tick(kind, site, c, index, f, mf, s, reads) ==
  [kind |-> kind, site |-> site, scrape_index |-> index,
   linear_space |-> c.linear_space, force |-> f, median_filter |-> mf,
   samples |-> s, reads |-> reads, used_index |-> c.scrape_index]

\* The state of the loop of lines 231-257 before grid point n.
Loop(kind, site, f, mf, h_index, v_index, reads) ==
  [kind |-> kind, site |-> site, force |-> f, mf |-> mf,
   h_index |-> h_index, v_index |-> v_index, reads |-> reads]

\* Lines 232-256 once process has returned m: *f is assigned.
point_assign(c, st, n, h, v, m) ==
  IF m.kind = "panic"
  THEN Loop("panic", "median", st.force, m.mf, h.start_x, v.start_x,
            st.reads \cup h.reads \cup v.reads)
  ELSE Loop("ok", "none",
            [st.force EXCEPT ![n] = c.horizontal * h.val + c.vertical * m.val],
            m.mf, h.start_x, v.start_x, st.reads \cup h.reads \cup v.reads)

\* Lines 244-255 once the vertical interpolation has returned v.
point_filter(c, st, n, h, v) ==
  IF v.kind = "panic"
  THEN Loop("panic", "curve", st.force, st.mf, h.start_x, v.start_x,
            st.reads \cup h.reads \cup v.reads)
  ELSE point_assign(c, st, n, h, v,
                    process(st.mf, tanh(ExactDiv(v.val, c.curve_mass))))

\* Line 246: the query of the vertical interpolation at grid position n is
\* *f, what the force buffer f holds at n before the assignment of line 232.
vertical_query(f, n) == f[n]

\* The vertical interpolation of lines 245-254.
point_vertical(c, st, n, h) ==
  IF h.kind = "panic"
  THEN Loop("panic", "curve", st.force, st.mf, h.start_x, st.v_index,
            st.reads \cup h.reads)
  ELSE point_filter(c, st, n, h,
                    interpolate1d(vertical_query(st.force, n),
                                  c.linear_space, c.d2sdx2,
                                  c.lower_d2sdx2, c.upper_d2sdx2,
                                  c.scrape_index, st.v_index, c.num_points))

\* The horizontal interpolation of lines 233-242, queried at the grid point.
point(c, st, n) ==
  point_vertical(c, st, n,
                 interpolate1d(SCRAPE_LINEAR_SPACE(n), c.linear_space, c.dsdx,
                               c.lower_dsdx, c.upper_dsdx, c.scrape_index,
                               st.h_index, c.num_points))

\* Line 231: SCRAPE_LINEAR_SPACE.iter().zip(force.iter_mut()), from pair n.
RECURSIVE force_loop(_, _, _)
force_loop(c, st, n) ==
  IF st.kind = "panic" \/ n >= SCRAPE_LINEAR_SPACE_LEN \/ n >= VLen(st.force)
  THEN st
  ELSE force_loop(c, point(c, st, n), n + 1)

\* Lines 263-267 on the outcome r of convolve: the whole of samples is
\* scaled and the cursor becomes final_index.
scrape_scale(c, st, r) ==
  IF r.kind = "panic"
  THEN Tick("panic", "convolve", c, c.scrape_index, st.force, st.mf,
            r.output, st.reads)
  ELSE Tick("ok", "none", c, c.final_index, st.force, st.mf,
            [i \in DOMAIN r.output |-> r.output[i] * c.amp], st.reads)

\* Line 260 on the outcome st of the loop.
scrape_convolve(c, st, s, checked) ==
  IF st.kind = "panic"
  THEN Tick("panic", st.site, c, c.scrape_index, st.force, st.mf, s,
            st.reads)
  ELSE scrape_scale(c, st,
                    convolve(c.impulse_response, st.force,
                             SCRAPE_LINEAR_SPACE_LEN, s, checked))

\* The values a tick computes before its loop (lines 206-226): the linear
\* space, the index after the reset, final_index, the factors.
Context(p, index, points, curve, curve2, space, ir) ==
  [linear_space |-> define_linear_space(space, points),
   scrape_index |-> reset_index(index, points, VLen(curve)),
   final_index |-> reset_index(index, points, VLen(curve)) + points,
   num_points |-> points,
   dsdx |-> curve,
   d2sdx2 |-> curve2,
   impulse_response |-> ir,
   vertical |-> vertical_of(p),
   horizontal |-> horizontal_of(p),
   curve_mass |-> curve_mass_of(p),
   amp |-> amp_of(p)]

\* Lines 227-230: the four boundary values, read in this order.
Boundaries(c) ==
  [lower_dsdx |-> c.dsdx[c.scrape_index],
   upper_dsdx |-> c.dsdx[c.final_index],
   lower_d2sdx2 |-> c.d2sdx2[c.scrape_index],
   upper_d2sdx2 |-> c.d2sdx2[c.final_index]] @@ c

\* The curve indices lines 227-230 read, the one that panics included.
boundary_reads(c) ==
  IF c.scrape_index \notin DOMAIN c.dsdx THEN {c.scrape_index}
  ELSE {c.scrape_index, c.final_index}

\* Whether lines 227-230 index a curve out of range.
boundary_fault(c) ==
  \/ c.scrape_index \notin DOMAIN c.dsdx
  \/ c.final_index \notin DOMAIN c.dsdx
  \/ c.scrape_index \notin DOMAIN c.d2sdx2
  \/ c.final_index \notin DOMAIN c.d2sdx2

\* get_scrape from line 227 on, c the context of the tick.
scrape_tick(c, f, mf, s, checked) ==
  IF boundary_fault(c)
  THEN Tick("panic", "curve", c, c.scrape_index, f, mf, s, boundary_reads(c))
  ELSE scrape_convolve(c,
         force_loop(Boundaries(c),
                    Loop("ok", "none", f, mf, 0, 0, boundary_reads(c)), 0),
         s, checked)

\* get_scrape (lines 188-268).
get_scrape(p, index, points, curve, curve2, space, f, ir, mf, s, checked) ==
  scrape_tick(Context(p, index, points, curve, curve2, space, ir),
              f, mf, s, checked)

\* ------------------------------------------------------------------- state

VARIABLES
  median_filter,   \* the MedianFilter of the voice
  pushed,          \* the samples passed to process so far, oldest first
  ret,             \* the outcome of the last process call
  conv_input,      \* convolve: the input array
  conv_input_b,    \* convolve: a second input of the same length
  conv_kernel,     \* convolve: the kernel
  conv_length,     \* convolve: the length asked for
  conv_output,     \* convolve: the caller's output array
  output_before,   \* what output held before each call
  conv_done,       \* the outcomes of the convolve calls made so far
  scrape_params,   \* get_scrape: the six physical parameters
  scrape_index,    \* get_scrape: the cursor the caller holds
  num_points,      \* get_scrape: the points a tick advances by
  dsdx,            \* get_scrape: the first-derivative curve
  d2sdx2,          \* get_scrape: the second-derivative curve
  linear_space,    \* get_scrape: the caller's linear space buffer
  force,           \* get_scrape: the caller's force buffer
  impulse_response, \* get_scrape: the impulse response
  samples,         \* get_scrape: the caller's samples buffer
  scrape_ret,      \* how the last tick ended, and where it panicked
  curve_reads,     \* the indices at which a tick has read the curves
  start_index,     \* the cursor the last tick started from
  used_index,      \* the index the last tick worked from after its reset
  ticks,           \* ticks completed since the cursor was last set to 0
  fresh,           \* cursor and filter are as a reset leaves them
  run_log,         \* the samples each completed tick produced
  force_before,    \* what the force buffer held before the last tick
  sel_data,        \* select_in_place: the window before the call
  sel_rank,        \* select_in_place: the rank asked for
  sel_ret,         \* select_in_place: the outcome of the call
  itp_args,        \* interpolate1d: x, y, lower, upper, offset and end_x
  itp_start_x,     \* interpolate1d: the cached start index
  itp_log,         \* interpolate1d: the calls made so far and their outcomes
  overflow_checks, \* whether the build checks usize arithmetic
  panicked         \* a call has panicked: the run is over

medianVars == <<median_filter, pushed, ret>>

convVars ==
  <<conv_input, conv_input_b, conv_kernel, conv_length, conv_output,
    output_before, conv_done>>

scrapeInputs ==
  <<scrape_params, num_points, dsdx, d2sdx2, impulse_response>>

scrapeVars ==
  <<scrapeInputs, scrape_index, linear_space, force, samples, scrape_ret,
    curve_reads, start_index, used_index, ticks, fresh, run_log,
    force_before>>

selectVars == <<sel_data, sel_rank, sel_ret>>

interpVars == <<itp_args, itp_start_x, itp_log>>

restVars == <<selectVars, interpVars>>

vars ==
  <<medianVars, convVars, scrapeVars, restVars, overflow_checks, panicked>>

NoCall == [kind |-> "none", val |-> 0]

\* The median filter of a run that does not use it.
IdleMedian ==
  /\ median_filter = FreshFilter
  /\ pushed = <<>>
  /\ ret = NoCall

\* The buffers of a run that does not call convolve by itself.
IdleConvolve ==
  /\ conv_input = Zeros(1)
  /\ conv_input_b = Zeros(1)
  /\ conv_kernel = Zeros(1)
  /\ conv_length = 0
  /\ conv_output = Zeros(1)
  /\ output_before = Zeros(1)
  /\ conv_done = <<>>

PhysicalParameters ==
  [primary_mass : {1}, scrape_speed : {20, 40}, max_speed : {1},
   roughness_ratio : {1}, simulation_amp : {1, 2}, scrape_amp : {1}]

\* The scrape generator of a run that does not call get_scrape.
IdleScrape ==
  /\ scrape_params \in {p \in PhysicalParameters :
                          p.scrape_speed = 20 /\ p.simulation_amp = 1}
  /\ scrape_index = 0
  /\ num_points = 2
  /\ dsdx = Zeros(2)
  /\ d2sdx2 = Zeros(2)
  /\ linear_space = Zeros(2)
  /\ force = Zeros(1)
  /\ impulse_response = Zeros(1)
  /\ samples = Zeros(1)
  /\ scrape_ret = [kind |-> "none", site |-> "none"]
  /\ curve_reads = {}
  /\ start_index = 0
  /\ used_index = 0
  /\ ticks = 0
  /\ fresh = TRUE
  /\ run_log = <<>>
  /\ force_before = Zeros(1)

\* No call of select_in_place by itself.
IdleSelect ==
  /\ sel_data = Zeros(1)
  /\ sel_rank = 0
  /\ sel_ret = NoCall

\* No call of interpolate1d by itself.
IdleInterp ==
  /\ itp_args = [x |-> Zeros(1), y |-> Zeros(1), lower |-> 0, upper |-> 0,
                  y_index_offset |-> 0, end_x |-> 0]
  /\ itp_start_x = 0
  /\ itp_log = <<>>

\* ------------------------------------------------- the median filter alone

InitMedian ==
  /\ median_filter = FreshFilter
  /\ pushed = <<>>
  /\ ret = NoCall
  /\ IdleConvolve
  /\ IdleScrape
  /\ IdleSelect
  /\ IdleInterp
  /\ overflow_checks = TRUE
  /\ panicked = FALSE

\* One call of process on the voice's filter.
ProcessDone(r, x) ==
  /\ median_filter' = r.mf
  /\ ret' = [kind |-> r.kind, val |-> r.val]
  /\ panicked' = (r.kind = "panic")
  /\ pushed' = Append(pushed, x)

Process(x) ==
  /\ ~panicked
  /\ Len(pushed) < MaxCalls
  /\ ProcessDone(process(median_filter, x), x)
  /\ UNCHANGED <<convVars, scrapeVars, restVars, overflow_checks>>

NextMedian == \E x \in Samples : Process(x)

SpecMedian == InitMedian /\ [][NextMedian]_vars

\* The median filter alone, its owner catching the unwind of a call that
\* panics and calling again: the filter is as the panicking call left it.
ProcessResumed(x) ==
  /\ Len(pushed) < MaxCalls
  /\ ProcessDone(process(median_filter, x), x)
  /\ UNCHANGED <<convVars, scrapeVars, restVars, overflow_checks>>

NextMedianResumed == \E x \in Samples : ProcessResumed(x)

SpecMedianResumed == InitMedian /\ [][NextMedianResumed]_vars

\* ----------------------------------------------------- the convolver alone

\* Arrays hold at most MaxLen entries; output holds 1 or MaxLen + 1.
MaxLen == 3

InputValues == {0 - 1, 1, 2}

KernelValues == {1, 2}

\* What output holds before a call: no sum of the model's products.
STALE == 7

Vectors(values, n) == [0..(n - 1) -> values]

VectorsUpTo(values, n) == UNION {Vectors(values, m) : m \in 1..n}

Constant(n, v) == [i \in 0..(n - 1) |-> v]

\* a + b, elementwise.
VAdd(a, b) == [i \in DOMAIN a |-> a[i] + b[i]]

InitConvolve ==
  /\ IdleMedian
  /\ IdleScrape
  /\ IdleSelect
  /\ IdleInterp
  /\ conv_input \in VectorsUpTo(InputValues, MaxLen)
  /\ conv_input_b \in {Constant(VLen(conv_input), v) : v \in InputValues}
  /\ conv_kernel \in VectorsUpTo(KernelValues, MaxLen)
  /\ conv_length \in 0..(MaxLen + 1)
  /\ conv_output \in {Constant(1, STALE), Constant(MaxLen + 1, STALE)}
  /\ output_before = conv_output
  /\ conv_done = <<>>
  /\ overflow_checks \in BOOLEAN
  /\ panicked = FALSE

\* The input of the next call: conv_input, then conv_input_b, then their sum.
Operand(n) ==
  CASE n = 1 -> conv_input
    [] n = 2 -> conv_input_b
    [] n = 3 -> VAdd(conv_input, conv_input_b)

\* One call of convolve, on an output array holding what the first call's
\* held.
Convolve ==
  /\ ~panicked
  /\ Len(conv_done) < 3
  /\ LET r == convolve(Operand(Len(conv_done) + 1), conv_kernel, conv_length,
                       output_before, overflow_checks)
     IN  /\ conv_output' = r.output
         /\ conv_done' = Append(conv_done, r)
         /\ panicked' = (r.kind = "panic")
  /\ UNCHANGED <<medianVars, scrapeVars, restVars, conv_input, conv_input_b,
                 conv_kernel, conv_length, output_before, overflow_checks>>

NextConvolve == Convolve

SpecConvolve == InitConvolve /\ [][NextConvolve]_vars

\* ------------------------------------------------ the scrape generator alone

\* The force buffer holds 1..MaxForce entries.
MaxForce == 3

\* What the force buffer holds before the first tick: below, at and inside
\* the linear space.
ForceValues == {0 - 1, 0, ONE - 1}

\* Curve values are multiples of CurveUnit, which keeps the quotients of
\* lines 254 and 289 exact.
CurveUnit == 10 * Factorial(MaxPoints - 1) * ONE

Slope(n) == [i \in 0..(n - 1) |-> (i + 1) * CurveUnit]

Curvature(n) == [i \in 0..(n - 1) |-> (i - 1) * CurveUnit]

\* An impulse response of n entries: 1, 2, ...
Ramp(n) == [i \in 0..(n - 1) |-> i + 1]

InitScrape ==
  /\ IdleMedian
  /\ IdleConvolve
  /\ IdleSelect
  /\ IdleInterp
  /\ scrape_params \in PhysicalParameters
  /\ scrape_index = 0
  /\ num_points \in 2..MaxPoints
  /\ dsdx \in {Slope(n) : n \in num_points..MaxCurve}
  /\ d2sdx2 = Curvature(VLen(dsdx))
  /\ linear_space = Zeros(MaxPoints)
  /\ force \in VectorsUpTo(ForceValues, MaxForce)
  /\ impulse_response \in
       {Ramp(n) : n \in {1, 2, SCRAPE_LINEAR_SPACE_LEN - 1,
                          SCRAPE_LINEAR_SPACE_LEN}}
  /\ samples \in {Constant(n, STALE) :
                    n \in {1, 2, SCRAPE_LINEAR_SPACE_LEN}}
  /\ scrape_ret = [kind |-> "none", site |-> "none"]
  /\ curve_reads = {}
  /\ start_index = 0
  /\ used_index = 0
  /\ ticks = 0
  /\ fresh = TRUE
  /\ run_log = <<>>
  /\ force_before = force
  /\ overflow_checks \in BOOLEAN
  /\ panicked = FALSE

\* What a tick that ended as r leaves in the caller's hands.
ScrapeDone(r) ==
  /\ scrape_index' = r.scrape_index
  /\ linear_space' = r.linear_space
  /\ force' = r.force
  /\ median_filter' = r.median_filter
  /\ samples' = r.samples
  /\ scrape_ret' = [kind |-> r.kind, site |-> r.site]
  /\ panicked' = (r.kind = "panic")
  /\ curve_reads' = curve_reads \cup r.reads
  /\ start_index' = scrape_index
  /\ used_index' = r.used_index
  /\ ticks' = IF r.kind = "ok" THEN ticks + 1 ELSE ticks
  /\ fresh' = FALSE
  /\ force_before' = force
  /\ run_log' = IF r.kind = "ok"
                THEN Append(run_log, [fresh |-> fresh, samples |-> r.samples])
                ELSE run_log

\* One tick: the caller passes its cursor, buffers and filter to get_scrape.
GetScrape ==
  /\ ~panicked
  /\ Len(run_log) < MaxTicks
  /\ ScrapeDone(get_scrape(scrape_params, scrape_index, num_points, dsdx,
                           d2sdx2, linear_space, force, impulse_response,
                           median_filter, samples, overflow_checks))
  /\ UNCHANGED <<pushed, ret, convVars, restVars, scrapeInputs,
                 overflow_checks>>

\* The caller sets the cursor and the median filter to their fresh values,
\* and nothing else.
ResetVoice ==
  /\ ~panicked
  /\ ~fresh
  /\ Len(run_log) < MaxTicks
  /\ scrape_index' = 0
  /\ median_filter' = FreshFilter
  /\ ticks' = 0
  /\ fresh' = TRUE
  /\ UNCHANGED <<pushed, ret, convVars, restVars, scrapeInputs, linear_space,
                 force,
                 samples, scrape_ret, curve_reads, start_index, used_index,
                 run_log, force_before, overflow_checks, panicked>>

NextScrape == GetScrape \/ ResetVoice

SpecScrape == InitScrape /\ [][NextScrape]_vars

\* ------------------------------------------------- select_in_place alone

\* Windows hold 1..MaxWindow values out of 0..MaxValue.
MaxWindow == 5
MaxValue == 2

InitSelect ==
  /\ IdleMedian
  /\ IdleConvolve
  /\ IdleScrape
  /\ IdleInterp
  /\ sel_data \in VectorsUpTo(0..MaxValue, MaxWindow)
  /\ sel_rank \in 0..(VLen(sel_data) - 1)
  /\ sel_ret = NoCall
  /\ overflow_checks = TRUE
  /\ panicked = FALSE

\* What the call that ended as r leaves.
SelectDone(r) ==
  /\ sel_ret' = r
  /\ panicked' = (r.kind = "panic")

\* One call of select_in_place(data, rank).
Select ==
  /\ ~panicked
  /\ sel_ret = NoCall
  /\ SelectDone(select_in_place(sel_data, sel_rank))
  /\ UNCHANGED <<medianVars, convVars, scrapeVars, interpVars, sel_data,
                 sel_rank, overflow_checks>>

NextSelect == Select

SpecSelect == InitSelect /\ [][NextSelect]_vars

\* --------------------------------------------------- interpolate1d alone

\* x holds 2..MaxAbscissae values; at most MaxQueries calls share one cache.
MaxAbscissae == 3
MaxQueries == 3

\* The abscissae are drawn from these: 0 and divisors of ONE.
XValues == {0, 1, 2, ONE}

\* The strictly increasing vectors of n values.
Increasing(values, n) ==
  {x \in Vectors(values, n) : \A i \in 0..(n - 2) : x[i] < x[i + 1]}

\* Ordinates of unequal slopes, in multiples of ONE * ONE, which keeps the
\* quotient of line 289 exact.
Ordinates(n) == [k \in 0..(n - 1) |-> (k + 1) * (k + 1) * ONE * ONE]

\* Queries below, at, between and above the abscissae.
QueryValues == {0 - 1, 0, 1, 2, ONE - 1, ONE}

InterpArgs(x, offset, end) ==
  [x |-> x, y |-> Ordinates(VLen(x) + offset), lower |-> 0 - ONE,
   upper |-> 0 - 2 * ONE, y_index_offset |-> offset, end_x |-> end]

InitInterp ==
  /\ IdleMedian
  /\ IdleConvolve
  /\ IdleScrape
  /\ IdleSelect
  /\ itp_args \in
       {InterpArgs(x, offset, end) :
          x \in UNION {Increasing(XValues, n) : n \in 2..MaxAbscissae},
          offset \in 0..1, end \in 1..MaxAbscissae}
  /\ itp_args.end_x <= VLen(itp_args.x)
  /\ itp_start_x = 0
  /\ itp_log = <<>>
  /\ overflow_checks = TRUE
  /\ panicked = FALSE

\* What the call with query v that ended as r leaves: the cache, and the
\* call in the log with the cache it started from.
InterpolateDone(v, r) ==
  /\ itp_start_x' = r.start_x
  /\ itp_log' = Append(itp_log, [v |-> v, start_before |-> itp_start_x,
                                 kind |-> r.kind, val |-> r.val,
                                 start_x |-> r.start_x, reads |-> r.reads])
  /\ panicked' = (r.kind = "panic")

\* One call of interpolate1d on the shared cache.
Interpolate(v) ==
  /\ ~panicked
  /\ Len(itp_log) < MaxQueries
  /\ InterpolateDone(v, interpolate1d(v, itp_args.x, itp_args.y,
                                      itp_args.lower, itp_args.upper,
                                      itp_args.y_index_offset, itp_start_x,
                                      itp_args.end_x))
  /\ UNCHANGED <<medianVars, convVars, scrapeVars, selectVars, itp_args,
                 overflow_checks>>

NextInterp == \E v \in QueryValues : Interpolate(v)

SpecInterp == InitInterp /\ [][NextInterp]_vars

\* ------------------------------------------------------ reference medians

SeqRange(s) == {s[i] : i \in 1..Len(s)}

\* The r-th smallest (r = 0 the least) of the values of sequence s.
KthSmallest(s, r) ==
  CHOOSE v \in SeqRange(s) :
    /\ Cardinality({i \in 1..Len(s) : s[i] < v}) <= r
    /\ r < Cardinality({i \in 1..Len(s) : s[i] <= v})

\* The median of a sequence: the middle value, or the mean of the two
\* middle ones.
MedianOf(s) ==
  IF Len(s) % 2 # 0
  THEN KthSmallest(s, Len(s) \div 2)
  ELSE (KthSmallest(s, Len(s) \div 2 - 1) + KthSmallest(s, Len(s) \div 2)) \div 2

LastFive(s) == SubSeq(s, Len(s) - 4, Len(s))

\* --------------------------------------------- claims on the median filter

\* C1: every process call made on a fresh filter returns, and from the
\* fifth call on the value returned is the median of the five samples
\* pushed last.
C1_SlidingMedian ==
  /\ ~panicked
  /\ Len(pushed) >= 5 => ret.val = MedianOf(LastFive(pushed))

\* C2: each of the first four process calls on a fresh filter that returns,
\* returns the median of exactly the samples pushed so far.
C2_WarmupMedian ==
  (Len(pushed) \in 1..4 /\ ret.kind = "ok") => ret.val = MedianOf(pushed)

\* C3: no process call aborts: it returns an element of the window or the
\* 0.0 of the iteration bound.
C3_ProcessNeverAborts == ret.kind # "panic"

\* ------------------------------------------------- claims on the convolver

\* The output indices a call that returns has written.
Written == 0..(conv_count(conv_length, output_before, overflow_checks) - 1)

\* C4: convolve with length = 0 returns without a panic and leaves every
\* entry of output as it was.
C4_ZeroLengthNoOp ==
  (conv_length = 0 /\ Len(conv_done) >= 1)
    => (conv_done[1].kind = "ok" /\ conv_done[1].output = output_before)

\* C5: with the kernel [1.0] and length = n = len(input) <= len(output),
\* convolve leaves output[i] = input[i] for every i in 0..n-1.
C5_IdentityKernel ==
  (/\ Len(conv_done) >= 1
   /\ conv_kernel = Constant(1, 1)
   /\ conv_length = VLen(conv_input)
   /\ VLen(output_before) >= conv_length)
    => /\ conv_done[1].kind = "ok"
       /\ \A i \in 0..(conv_length - 1) : conv_done[1].output[i] = conv_input[i]

\* The three calls on a, b and a + b have all returned.
LinearityRun ==
  /\ Len(conv_done) = 3
  /\ \A n \in 1..3 : conv_done[n].kind = "ok"

\* C10: when the calls on a, b and a + b complete, every output index i
\* written holds convolve(a + b, k)[i] = convolve(a, k)[i] + convolve(b, k)[i].
C10_Linear ==
  LinearityRun =>
    \A i \in Written :
      conv_done[3].output[i] = conv_done[1].output[i] + conv_done[2].output[i]

\* C10's case: the three calls returned and wrote an index whose sum has
\* two terms, with a, b and their sum all different there.
C10_Witness ==
  /\ LinearityRun
  /\ \E i \in Written :
       /\ i >= 2 /\ i < VLen(conv_input) /\ VLen(conv_kernel) = 2
       /\ conv_done[1].output[i] # conv_done[2].output[i]
       /\ conv_done[3].output[i] # conv_done[1].output[i]
       /\ conv_done[3].output[i] # conv_done[2].output[i]

\* C6: in every tick of any sequence of get_scrape calls from cursor 0, every
\* index at which dsdx or d2sdx2 is read (the boundary values and the
\* interpolation reads) lies in [0, L), L the length of the curves.
C6_CurveReadsInBounds == \A i \in curve_reads : 0 <= i /\ i < VLen(dsdx)

\* C7, as stated: at the start of every tick the cursor the caller holds
\* satisfies 0 <= scrape_index <= len(dsdx) - num_points.
C7_CursorInvariant ==
  ~panicked =>
    (0 <= scrape_index /\ scrape_index <= VLen(dsdx) - num_points)

\* C7, amended: at the start of every tick the cursor the caller holds
\* satisfies 0 <= scrape_index <= len(dsdx) - 1, and the index a tick works
\* from after its reset step satisfies 0 <= index <= len(dsdx) - num_points.
C7_CursorWithinCurve ==
  /\ ~panicked => (0 <= scrape_index /\ scrape_index <= VLen(dsdx) - 1)
  /\ 0 <= used_index /\ used_index <= VLen(dsdx) - num_points

\* A tick has started from a cursor above len(dsdx) - num_points, reset it
\* to 0 and completed.
C7_Witness ==
  /\ scrape_ret.kind = "ok"
  /\ start_index > VLen(dsdx) - num_points
  /\ used_index = 0
  /\ scrape_index = num_points

CeilDiv(a, b) == (a + b - 1) \div b

\* C8: from cursor 0, after every ceil(L/P) consecutive ticks the cursor is
\* back at 0, and no tick errors on the curve instead of looping.
C8_CursorLoops ==
  /\ scrape_ret.site # "curve"
  /\ (ticks > 0 /\ ticks % CeilDiv(VLen(dsdx), num_points) = 0)
       => scrape_index = 0

\* Two ticks in succession, each from a fresh cursor and a fresh filter.
FreshPair(n) ==
  /\ n \in 1..(Len(run_log) - 1)
  /\ run_log[n].fresh
  /\ run_log[n + 1].fresh

\* C9: two get_scrape runs in succession on the same parameters, curves and
\* impulse response, with only the cursor and the median filter reset to
\* their fresh values in between, produce identical samples buffers.
C9_Deterministic ==
  \A n \in 1..(Len(run_log) - 1) :
    FreshPair(n) => run_log[n + 1].samples = run_log[n].samples

\* The entries of a vector, first to last, as a sequence.
VSeq(d) == [i \in 1..VLen(d) |-> d[i - 1]]

\* How many entries of d hold v.
Count(d, v) == Cardinality({i \in DOMAIN d : d[i] = v})

\* C11: for every window of 1..5 values and every rank r in 0..len-1,
\* select_in_place(data, r) returns the r-th smallest element of data and
\* leaves the same multiset of values in the window.
C11_SelectsRank ==
  sel_ret # NoCall =>
    /\ sel_ret.kind = "ok"
    /\ sel_ret.val = KthSmallest(VSeq(sel_data), sel_rank)
    /\ \A v \in VRange(sel_data) \cup VRange(sel_ret.data) :
         Count(sel_ret.data, v) = Count(sel_data, v)

\* The write offset after n calls on a fresh filter: 0, 4, 3, 2, 1, 0, 4, ...
OffsetAfter(n) == (5 - (n % 5)) % 5

\* C12: across any sequence of process calls on a fresh filter the write
\* offset stays in 0..=4 and takes the values 4,3,2,1,0,4,3,... on successive
\* calls; full is false after each of the first four calls and true from the
\* fifth on.
C12_StateMachine ==
  /\ median_filter.offset \in 0..4
  /\ median_filter.offset = OffsetAfter(Len(pushed))
  /\ median_filter.full = (Len(pushed) >= 5)

\* Six calls have been made: the offset has wrapped to 4 and full has stayed.
C12_Witness ==
  /\ Len(pushed) = 6
  /\ median_filter.offset = 4
  /\ median_filter.full

\* The queries of the log do not decrease.
NonDecreasing(log) == \A n \in 1..(Len(log) - 1) : log[n].v <= log[n + 1].v

\* The indices of x in [start, end_x) whose abscissa is above v.
Above(v, start) == {i \in start..(itp_args.end_x - 1) : v < itp_args.x[i]}

\* What C13 says of a call c whose first index above the query is i: the
\* cache becomes i + 1, lower is returned at i = 0, and y is read at
\* i - 1 + offset and i + offset otherwise.
AbsoluteIndex(c, i) ==
  /\ c.start_x = i + 1
  /\ i = 0 => c.val = itp_args.lower
  /\ i # 0 => c.reads = {i - 1 + itp_args.y_index_offset,
                         i + itp_args.y_index_offset}

\* C13: for a strictly increasing x and non-decreasing queries sharing one
\* cached start_x, each call locates the first absolute index i in
\* [start_x, end_x) with v < x[i], returns lower exactly when i = 0,
\* otherwise interpolates on the points i - 1 and i, and sets the cache to
\* the absolute i + 1.
C13_AbsoluteIndex ==
  NonDecreasing(itp_log) =>
    \A n \in 1..Len(itp_log) :
      Above(itp_log[n].v, itp_log[n].start_before) # {} =>
        AbsoluteIndex(itp_log[n],
                      SetMin(Above(itp_log[n].v, itp_log[n].start_before)))

\* C19: after any sequence of interpolate1d calls (queries of any value, in
\* any order) over the same x with a fixed end_x <= len(x) and the cache
\* initially 0, the cached start index satisfies 0 <= start_x <= end_x.
C19_CacheInRange == 0 <= itp_start_x /\ itp_start_x <= itp_args.end_x

\* A call has left the cache at end_x, the whole of x being scanned, and the
\* next call has found the slice empty and set it back to 0.
C19_Witness ==
  /\ Len(itp_log) >= 2
  /\ itp_args.end_x = VLen(itp_args.x)
  /\ itp_log[1].start_x = itp_args.end_x
  /\ itp_log[2].start_x = 0
  /\ itp_log[2].val = itp_args.upper

\* The kernel indices C14 names for output index i:
\* [max(0, i - input_length - 1), min(kernel_length - 1, i)].
KernelWindow(input, kernel, i) ==
  (IF i - VLen(input) - 1 > 0 THEN i - VLen(input) - 1 ELSE 0)
    ..(IF VLen(kernel) - 1 < i THEN VLen(kernel) - 1 ELSE i)

\* The sum of input[i - j] * kernel[j] over the indices j of W, a term
\* whose index falls outside input left out.
RECURSIVE WindowSum(_, _, _, _)
WindowSum(input, kernel, i, W) ==
  IF W = {} THEN 0
  ELSE (IF i - SetMin(W) \in DOMAIN input
        THEN input[i - SetMin(W)] * kernel[SetMin(W)]
        ELSE 0)
       + WindowSum(input, kernel, i, W \ {SetMin(W)})

\* C14: for every output index i in 0..=length-2, convolve sets output[i]
\* to the sum of input[i-j] * kernel[j] over the kernel indices j in
\* [max(0, i-input_length-1), min(kernel_length-1, i)], j absolute.
C14_Window ==
  (Len(conv_done) >= 1 /\ conv_done[1].kind = "ok" /\ conv_length >= 1) =>
    \A i \in Written :
      conv_done[1].output[i] =
        WindowSum(conv_input, conv_kernel, i,
                  KernelWindow(conv_input, conv_kernel, i))

\* C15: for input_length >= 1, kernel_length >= 1, length >= 1 and an
\* output of at least length entries, convolve completes: it indexes
\* neither input nor kernel out of bounds and no index underflows.
C15_Completes ==
  (/\ Len(conv_done) >= 1
   /\ VLen(conv_input) >= 1
   /\ VLen(conv_kernel) >= 1
   /\ conv_length >= 1
   /\ VLen(output_before) >= conv_length) =>
    conv_done[1].kind = "ok"

\* C16: after a get_scrape tick every entry samples[i], 0 <= i <
\* SCRAPE_LINEAR_SPACE_LEN, is roughness_ratio * simulation_amp * scrape_amp
\* times the convolution value of index i in this tick, none of them derived
\* from what samples held before.
C16_FullyRewritten ==
  scrape_ret.kind = "ok" =>
    \A i \in DOMAIN samples \cap 0..(SCRAPE_LINEAR_SPACE_LEN - 1) :
      /\ conv_sample(impulse_response, force, i).kind = "ok"
      /\ samples[i] =
           amp_of(scrape_params) * conv_sample(impulse_response, force, i).val

\* The grid positions whose vertical interpolation the last tick has made:
\* those of the loop of line 231, up to and including the one that panicked.
\* The force buffer is assigned at n only after the query at n, so the
\* query is what the buffer held before the tick.
Queried ==
  {n \in DOMAIN force_before \cap 0..(SCRAPE_LINEAR_SPACE_LEN - 1) :
     \/ scrape_ret.kind = "ok"
     \/ scrape_ret.site = "convolve"
     \/ scrape_ret.site = "median" /\ (n = 0 \/ force[n - 1] # force_before[n - 1])}

\* C17: in a get_scrape tick, for every grid position n the vertical
\* interpolation of d2sdx2 is queried at the n-th point of the sampling grid.
C17_GridQuery ==
  \A n \in Queried : vertical_query(force_before, n) = SCRAPE_LINEAR_SPACE(n)

\* How many of the values of sequence q are v.
Occurrences(q, v) == Cardinality({i \in 1..Len(q) : q[i] = v})

\* The slot of the ring buffer the next process call writes (line 30).
NextSlot(mf) == IF mf.offset = 0 THEN 4 ELSE mf.offset - 1

\* C18 (a): once the filter is full, the ring buffer holds the five samples
\* pushed last, as a multiset.
C18_Multiset ==
  median_filter.full =>
    \A v \in Samples :
      Count(median_filter.buffer, v) = Occurrences(LastFive(pushed), v)

\* C18 (b): once the filter is full, the slot the next call writes holds
\* the oldest of the five samples pushed last.
C18_EvictsOldest ==
  median_filter.full =>
    median_filter.buffer[NextSlot(median_filter)] = pushed[Len(pushed) - 4]

\* C18: once the filter is full, after every process call the ring buffer
\* holds exactly the five samples pushed last, and the next call overwrites
\* the oldest of them.
C18_RecentWindow == C18_Multiset /\ C18_EvictsOldest

====
